---- MODULE Spec2Model ----
(***************************************************************************)
(* Camp Planner (src/src/App.jsx): the schedule document, the roster and   *)
(* list editors, the cell editor, schedule creation, the sessions and the  *)
(* real-time subscription protocol.                                        *)
(*                                                                         *)
(* A name (kid or camp) is a JavaScript string, modelled as a sequence of  *)
(* one-character strings, so that trim(), === and localeCompare() are      *)
(* computed on the characters.                                             *)
(***************************************************************************)
EXTENDS Integers, Sequences, FiniteSets, TLC

\* --------------------------------------------------------------- bounds
\* Largest number of committed versions of one schedule document.
MaxCommits == 2

\* --------------------------------------------------------------- strings
Chars == {" ", "a", "A", "b"}

\* Text typed into the name inputs of the roster specification.
RawInputs ==
  { <<>>, <<" ">>, <<"a">>, <<"A">>, <<"b">>, <<" ", "a">>, <<"a", " ">>,
    <<"A", "b">>, <<"a", " ", "b">>, <<" ", "A", " ">> }

\* Text typed into the Manage Kids and the Manage Camps input of a schedule.
KidInputs == { <<" ", "b">> }

CampInputs == { <<"A", " ">> }

\* The week columns of the grid in which a viewer clicks cells.
ClickWeeks == {0}

\* String.prototype.localeCompare under the default (root) collation: the
\* strings are compared by their letters first (space < a = A < b) and, when
\* these agree, by case, lower case first.
Primary(c) == CASE c = " " -> 0 [] c \in {"a", "A"} -> 1 [] OTHER -> 2

Tertiary(c) == IF c = "A" THEN 1 ELSE 0

PrimaryKey(x) == [i \in 1..Len(x) |-> Primary(x[i])]

TertiaryKey(x) == [i \in 1..Len(x) |-> Tertiary(x[i])]

RECURSIVE LexCompare(_, _)
LexCompare(x, y) ==
  IF Len(x) = 0 THEN (IF Len(y) = 0 THEN 0 ELSE -1)
  ELSE IF Len(y) = 0 THEN 1
  ELSE IF Head(x) < Head(y) THEN -1
  ELSE IF Head(x) > Head(y) THEN 1
  ELSE LexCompare(Tail(x), Tail(y))

localeCompare(a, b) ==
  LET p == LexCompare(PrimaryKey(a), PrimaryKey(b))
  IN  IF p # 0 THEN p ELSE LexCompare(TertiaryKey(a), TertiaryKey(b))

\* Array.prototype.sort((a,b) => a.localeCompare(b)): a stable sort, computed
\* here by insertion from the left.
RECURSIVE InsertSorted(_, _)
InsertSorted(s, x) ==
  IF Len(s) = 0 THEN <<x>>
  ELSE IF localeCompare(x, s[Len(s)]) < 0
       THEN Append(InsertSorted(SubSeq(s, 1, Len(s) - 1), x), s[Len(s)])
       ELSE Append(s, x)

\* A sort that leaves the array as it is.
sortNone(s) == s

RECURSIVE sort(_)
sort(s) ==
  IF Len(s) = 0 THEN <<>>
  ELSE InsertSorted(sort(SubSeq(s, 1, Len(s) - 1)), s[Len(s)])

\* String.prototype.trim
RECURSIVE trimStart(_)
trimStart(s) == IF Len(s) > 0 /\ Head(s) = " " THEN trimStart(Tail(s)) ELSE s

RECURSIVE trimEnd(_)
trimEnd(s) ==
  IF Len(s) > 0 /\ s[Len(s)] = " " THEN trimEnd(SubSeq(s, 1, Len(s) - 1)) ELSE s

trim(s) == trimEnd(trimStart(s))

\* An includes that finds nothing.
includesNever(list, x) == FALSE

\* Array.prototype.includes and filter(item => item !== x)
includes(list, x) == \E i \in 1..Len(list) : list[i] = x

without(list, x) == SelectSeq(list, LAMBDA n : n # x)

Range(list) == { list[i] : i \in 1..Len(list) }

\* list.indexOf(x): the zero-based position of the first entry equal to x,
\* -1 when there is none.
indexOf(list, x) ==
  IF includes(list, x)
  THEN (CHOOSE i \in 1..Len(list) :
          list[i] = x /\ \A j \in 1..(i - 1) : list[j] # x) - 1
  ELSE -1

\* a % n of JavaScript, n > 0: the remainder has the sign of a.
remainder(a, n) == IF a >= 0 THEN a % n ELSE -((-a) % n)

\* array[i] of JavaScript, i an integer: undefined outside the array.
Undefined == "undefined"

element(array, i) == IF i \in 0..(Len(array) - 1) THEN array[i + 1] ELSE Undefined

\* --------------------------------------------------------------- state
Viewers == {"v1", "v2"}

ScheduleIds == {"S1"}

\* null: of an identifier, and of a document (no document fields).
Null == "null"

NullData == [null |-> TRUE]

VARIABLES
  needsOnboarding,        \* App: the user document does not exist yet
  kids,                   \* OnboardingScreen: the roster being edited
  userKids,               \* users/{uid}.kids
  userSchedules,          \* users/{uid}.schedules
  user,                   \* App.user, per viewer
  userData,               \* App.userData
  error,                  \* App.error
  console,                \* the lines console.error has written
  creating,               \* the calls of handleCreateSchedule awaiting a write
  store,                  \* schedules/{id}: the stored document
  commits,                \* schedules/{id}: how many writes were committed
  view,                   \* PlannerScreen.view, per viewer
  currentScheduleId,      \* PlannerScreen.currentScheduleId
  schedules,              \* PlannerScreen.schedules
  scheduleData,           \* ScheduleDetailView.scheduleData
  pending,                \* the viewer's listener has a snapshot to deliver
  modal,                  \* which of the three modals is open
  currentItems,           \* ManagementModal.currentItems of the open modal
  currentCell,            \* ScheduleDetailView.currentCell while its modal is open
  openedCamp,             \* the camp the cell's modal named when it was opened
  selectedKids,           \* EditScheduleModal.selectedKids
  isPrintView,            \* ScheduleDetailView.isPrintView
  selectedKidForSummary   \* ScheduleDetailView.selectedKidForSummary

vars ==
  << needsOnboarding, kids, userKids, userSchedules, user, userData, error, console,
     creating, store, commits, view, currentScheduleId, schedules, scheduleData,
     pending, modal, currentItems, currentCell, openedCamp, selectedKids, isPrintView,
     selectedKidForSummary >>

sessionVars == << user, error, console, creating >>

userVars == << needsOnboarding, kids, userKids, userSchedules, userData, sessionVars >>

storeVars == << store, commits >>

plannerVars == << view, currentScheduleId, schedules >>

detailVars ==
  << scheduleData, pending, modal, currentItems, currentCell, openedCamp, selectedKids,
     isPrintView, selectedKidForSummary >>

Uid == "u1"

\* The roster of the signed-in user once onboarding is done.
OwnerKids == << <<"a">> >>

\* weekCount written by handleCreateSchedule.
DefaultWeekCount == 8

\* The user document as the listener of App hands it over.
userDoc ==
  IF needsOnboarding
  THEN [needsOnboarding |-> TRUE]
  ELSE [kids |-> userKids, schedules |-> userSchedules]

\* onSnapshot(userDocRef, doc => ...): setUserData in every session whose
\* listener is attached. The listener is attached when the session signs in,
\* and nothing detaches it: the function that would is returned to
\* onAuthStateChanged, which drops it.
onUserSnapshot(data) == [v \in Viewers |-> data]

\* App renders the PlannerScreen.
PlannerShown(e) == user[e] # Null /\ ~needsOnboarding

\* Every viewer is a signed-in session of the user, no call in flight.
SignedIn ==
  /\ user = [e \in Viewers |-> Uid]
  /\ userData = [e \in Viewers |-> userDoc]
  /\ error = [e \in Viewers |-> ""]
  /\ console = [e \in Viewers |-> {}]
  /\ creating = [e \in Viewers |-> {}]

\* --------------------------------------------------------------- schedule document
\* The key `${campIndex}-${weekIndex}` of the schedule map: the decimal digits
\* of two non-negative integers joined by "-", one key per pair.
Key(campIndex, weekIndex) == << campIndex, weekIndex >>

EmptySchedule == [k \in {} |-> <<>>]

\* planData.schedule[key] || []
Get(schedule, key) == IF key \in DOMAIN schedule THEN schedule[key] ELSE <<>>

\* { ...schedule, [key]: attendees }
spread(schedule, key, attendees) ==
  [k \in (DOMAIN schedule) \cup {key} |-> IF k = key THEN attendees ELSE schedule[k]]

newSchedule(kid) ==
  [ kidName |-> kid, ownerId |-> Uid, collaborators |-> {}, camps |-> <<>>,
    allKids |-> <<kid>>, schedule |-> EmptySchedule, startDate |-> "2025-06-23",
    weekCount |-> DefaultWeekCount ]

Exists(id) == store[id] # NullData

\* The listener of viewer v is attached to schedules/{id}.
subscribed(v, id) == view[v] = "viewSchedule" /\ currentScheduleId[v] = id

\* (notifyNone is notify telling no listener.)
notifyNone(e, id) == pending

\* A committed write reaches the attached listeners of the other viewers; the
\* writer's own listener shows the write at once.
notify(e, id) ==
  [v \in Viewers |-> IF v # e /\ subscribed(v, id) THEN TRUE ELSE pending[v]]

\* (setDocIfAbsent is setDoc that leaves an existing document as it is.)
setDocIfAbsent(e, id, data) ==
  /\ commits[id] < MaxCommits
  /\ store' = [store EXCEPT ![id] = IF Exists(id) THEN @ ELSE data]
  /\ commits' = [commits EXCEPT ![id] = @ + 1]

\* setDoc(ref, data): the document is replaced in full.
setDoc(e, id, data) ==
  /\ commits[id] < MaxCommits
  /\ store' = [store EXCEPT ![id] = data]
  /\ commits' = [commits EXCEPT ![id] = @ + 1]

\* updateDoc(ref, { [field]: value }): one top-level field of an existing
\* document is overwritten.
updateDoc(e, id, field, value) ==
  /\ Exists(id)
  /\ commits[id] < MaxCommits
  /\ store' = [store EXCEPT ![id] = [@ EXCEPT ![field] = value]]
  /\ commits' = [commits EXCEPT ![id] = @ + 1]
  /\ pending' = notify(e, id)

\* --------------------------------------------------------------- rosters
\* (addUntrimmed is add with the text inserted as typed.)
\* The roster after an add click with name in the text input, as
\* handleAddKid and handleAddItem both compute it:
\*   if (name.trim() && !items.includes(name.trim()))
\*     [...items, name.trim()].sort((a, b) => a.localeCompare(b))
addUntrimmed(items, name) ==
  IF Len(trim(name)) > 0 /\ ~includes(items, name)
  THEN sort(Append(items, name))
  ELSE items

add(items, name) ==
  IF Len(trim(name)) > 0 /\ ~includes(items, trim(name))
  THEN sort(Append(items, trim(name)))
  ELSE items

\* --------------------------------------------------------------- onboarding
\* handleAddKid, kidName being the text of the name input at the click.
handleAddKid(kidName) ==
  /\ needsOnboarding
  /\ kids' = add(kids, kidName)
  /\ UNCHANGED << needsOnboarding, userKids, userSchedules, userData, sessionVars,
                  storeVars, plannerVars, detailVars >>

handleRemoveKid(nameToRemove) ==
  /\ needsOnboarding
  /\ kids' = without(kids, nameToRemove)
  /\ UNCHANGED << needsOnboarding, userKids, userSchedules, userData, sessionVars,
                  storeVars, plannerVars, detailVars >>

\* handleFinishSetup: the user document is written and the planner replaces
\* the onboarding screen.
handleFinishSetup ==
  /\ needsOnboarding
  /\ userKids' = kids
  /\ userSchedules' = {}
  /\ needsOnboarding' = FALSE
  /\ kids' = <<>>
  /\ userData' = onUserSnapshot([kids |-> kids, schedules |-> {}])
  /\ UNCHANGED << sessionVars, storeVars, plannerVars, detailVars >>

\* --------------------------------------------------------------- ManagementModal
\* The schedule view with no modal over it and the grid (not the summary) shown.
GridShown(e) ==
  /\ PlannerShown(e)
  /\ view[e] = "viewSchedule"
  /\ scheduleData[e] # NullData
  /\ ~isPrintView[e]
  /\ modal[e] = "none"

listName(e) == IF modal[e] = "kids" THEN "allKids" ELSE "camps"

\* setKidsModalOpen(true) / setCampsModalOpen(true), then the modal's effect.
openManagementModal(e, which) ==
  /\ GridShown(e)
  /\ modal' = [modal EXCEPT ![e] = which]
  /\ currentItems' = [currentItems EXCEPT ![e] =
       sort(scheduleData[e][IF which = "kids" THEN "allKids" ELSE "camps"])]
  /\ UNCHANGED << userVars, storeVars, plannerVars, scheduleData, pending, currentCell,
                  openedCamp,
                  selectedKids, isPrintView, selectedKidForSummary >>

\* handleAddItem, newItem being the text of the modal's input at the click.
handleAddItem(e, newItem) ==
  /\ modal[e] \in {"kids", "camps"}
  /\ currentItems' = [currentItems EXCEPT ![e] = add(@, newItem)]
  /\ UNCHANGED << userVars, storeVars, plannerVars, scheduleData, pending, modal,
                  currentCell,
                  openedCamp, selectedKids, isPrintView, selectedKidForSummary >>

handleRemoveItem(e, itemToRemove) ==
  /\ modal[e] \in {"kids", "camps"}
  /\ currentItems' = [currentItems EXCEPT ![e] = without(@, itemToRemove)]
  /\ UNCHANGED << userVars, storeVars, plannerVars, scheduleData, pending, modal,
                  currentCell,
                  openedCamp, selectedKids, isPrintView, selectedKidForSummary >>

\* A list save that writes the viewer's whole copy of the document, the list
\* replaced in it, instead of the one field.
handleUpdateListWhole(e, name, newList) ==
  /\ Exists(currentScheduleId[e])
  /\ commits[currentScheduleId[e]] < MaxCommits
  /\ store' = [store EXCEPT ![currentScheduleId[e]] =
                 [scheduleData[e] EXCEPT ![name] = sort(newList)]]
  /\ commits' = [commits EXCEPT ![currentScheduleId[e]] = @ + 1]
  /\ pending' = notify(e, currentScheduleId[e])
  /\ scheduleData' = [scheduleData EXCEPT ![e] = [@ EXCEPT ![name] = sort(newList)]]

\* handleUpdateList(listName, newList): the list is sorted and written over
\* the named field; the writer's own listener shows the write at once.
handleUpdateList(e, name, newList) ==
  /\ updateDoc(e, currentScheduleId[e], name, sort(newList))
  /\ scheduleData' = [scheduleData EXCEPT ![e] = [@ EXCEPT ![name] = sort(newList)]]

\* ManagementModal.handleSave: onSave(currentItems); onClose()
handleSave(e) ==
  /\ modal[e] \in {"kids", "camps"}
  /\ handleUpdateList(e, listName(e), currentItems[e])
  /\ modal' = [modal EXCEPT ![e] = "none"]
  /\ currentItems' = [currentItems EXCEPT ![e] = <<>>]
  /\ UNCHANGED << userVars, plannerVars, currentCell, openedCamp, selectedKids, isPrintView,
                  selectedKidForSummary >>

\* ManagementModal.handleSave when updateDoc is rejected: the catch of
\* handleUpdateList logs, and the modal is closed as after a save.
handleSaveRejected(e) ==
  /\ modal[e] \in {"kids", "camps"}
  /\ console' = [console EXCEPT ![e] =
                   @ \cup {IF modal[e] = "kids" THEN "Error updating allKids:"
                                                ELSE "Error updating camps:"}]
  /\ modal' = [modal EXCEPT ![e] = "none"]
  /\ currentItems' = [currentItems EXCEPT ![e] = <<>>]
  /\ UNCHANGED << needsOnboarding, kids, userKids, userSchedules, userData, user,
                  error, creating, storeVars, plannerVars, scheduleData, pending,
                  currentCell, openedCamp, selectedKids, isPrintView,
                  selectedKidForSummary >>

\* Cancel / X of a ManagementModal.
onClose(e) ==
  /\ modal[e] \in {"kids", "camps"}
  /\ modal' = [modal EXCEPT ![e] = "none"]
  /\ currentItems' = [currentItems EXCEPT ![e] = <<>>]
  /\ UNCHANGED << userVars, storeVars, plannerVars, scheduleData, pending, currentCell,
                  openedCamp,
                  selectedKids, isPrintView, selectedKidForSummary >>

\* --------------------------------------------------------------- PlannerScreen, Dashboard
\* { campIndex: null, weekIndex: null }, null written -1.
NoCell == [campIndex |-> -1, weekIndex |-> -1]

\* The documents named in users/{uid}.schedules, as the schedules query
\* hands them over.
listed ==
  { [id |-> id, kidName |-> store[id].kidName] :
      id \in { i \in userSchedules : Exists(i) } }

\* The schedules query listener.
onSchedulesSnapshot(e) ==
  /\ PlannerShown(e)
  /\ schedules' = [schedules EXCEPT ![e] = listed]
  /\ schedules'[e] # schedules[e]
  /\ UNCHANGED << userVars, storeVars, view, currentScheduleId, detailVars >>

unscheduledKids(e) ==
  { k \in Range(userKids) : ~(\E s \in schedules[e] : s.kidName = k) }

\* A freshly mounted ScheduleDetailView for schedule id (its listener, whose
\* first snapshot is to come, is set by the caller).
mountDetail(e, id) ==
  /\ view' = [view EXCEPT ![e] = "viewSchedule"]
  /\ currentScheduleId' = [currentScheduleId EXCEPT ![e] = id]
  /\ scheduleData' = [scheduleData EXCEPT ![e] = NullData]
  /\ UNCHANGED << modal, currentItems, currentCell, openedCamp, selectedKids, isPrintView,
                  selectedKidForSummary >>

\* The ScheduleDetailView is unmounted: its state and its listener are gone.
unmountDetail(e) ==
  /\ view' = [view EXCEPT ![e] = "dashboard"]
  /\ scheduleData' = [scheduleData EXCEPT ![e] = NullData]
  /\ pending' = [pending EXCEPT ![e] = FALSE]
  /\ modal' = [modal EXCEPT ![e] = "none"]
  /\ currentItems' = [currentItems EXCEPT ![e] = <<>>]
  /\ currentCell' = [currentCell EXCEPT ![e] = NoCell]
  /\ openedCamp' = [openedCamp EXCEPT ![e] = <<>>]
  /\ selectedKids' = [selectedKids EXCEPT ![e] = <<>>]
  /\ isPrintView' = [isPrintView EXCEPT ![e] = FALSE]
  /\ selectedKidForSummary' = [selectedKidForSummary EXCEPT ![e] = <<>>]

\* Dashboard.handleCreateSchedule(kidName), newScheduleId being the random token.
handleCreateSchedule(e, kid, newScheduleId) ==
  /\ PlannerShown(e)
  /\ view[e] = "dashboard"
  /\ kid \in unscheduledKids(e)
  /\ setDoc(e, newScheduleId, newSchedule(kid))
  /\ userSchedules' = userSchedules \cup {newScheduleId}
  /\ mountDetail(e, newScheduleId)
  /\ pending' = [notify(e, newScheduleId) EXCEPT ![e] = TRUE]
  /\ userData' = onUserSnapshot([kids |-> userKids, schedules |-> userSchedules'])
  /\ UNCHANGED << needsOnboarding, kids, userKids, schedules, sessionVars >>

\* handleCreateSchedule call by call. The click: the random token is drawn
\* and setDoc is committed; the call then awaits, the dashboard still shown.
createSetDoc(e, kid, newScheduleId) ==
  /\ PlannerShown(e)
  /\ view[e] = "dashboard"
  /\ kid \in unscheduledKids(e)
  /\ setDoc(e, newScheduleId, newSchedule(kid))
  /\ pending' = notify(e, newScheduleId)
  /\ creating' = [creating EXCEPT ![e] =
                    @ \cup {[kidName |-> kid, newScheduleId |-> newScheduleId]}]
  /\ UNCHANGED << needsOnboarding, kids, userKids, userSchedules, userData, user,
                  error, console, plannerVars, scheduleData, modal, currentItems,
                  currentCell, openedCamp, selectedKids, isPrintView,
                  selectedKidForSummary >>

\* The click when setDoc is rejected: the catch logs, and the call is over.
createSetDocRejected(e, kid, newScheduleId) ==
  /\ PlannerShown(e)
  /\ view[e] = "dashboard"
  /\ kid \in unscheduledKids(e)
  /\ console' = [console EXCEPT ![e] = @ \cup {"Error creating schedule:"}]
  /\ UNCHANGED << needsOnboarding, kids, userKids, userSchedules, userData, user,
                  error, creating, storeVars, plannerVars, detailVars >>

\* handleViewSchedule(id) called by a call that awaited: the PlannerScreen may
\* show a schedule by now, whose ScheduleDetailView then stays mounted and
\* attaches its listener to the other document.
viewCreated(e, id) ==
  IF view[e] = "dashboard"
  THEN /\ mountDetail(e, id)
       /\ pending' = [pending EXCEPT ![e] = TRUE]
  ELSE /\ currentScheduleId' = [currentScheduleId EXCEPT ![e] = id]
       /\ pending' = [pending EXCEPT ![e] = @ \/ id # currentScheduleId[e]]
       /\ UNCHANGED << view, scheduleData, modal, currentItems, currentCell,
                       openedCamp, selectedKids, isPrintView, selectedKidForSummary >>

\* (createUpdateDocRolledBack is the rejected updateDoc with the schedule
\* document deleted again.)
createUpdateDocRolledBack(e, c) ==
  /\ c \in creating[e]
  /\ store' = [store EXCEPT ![c.newScheduleId] = NullData]
  /\ console' = [console EXCEPT ![e] = @ \cup {"Error creating schedule:"}]
  /\ creating' = [creating EXCEPT ![e] = @ \ {c}]
  /\ UNCHANGED << needsOnboarding, kids, userKids, userSchedules, userData, user,
                  error, commits, plannerVars, detailVars >>

\* The call c resumes when updateDoc of the user document is rejected: the
\* catch logs, and the call is over.
createUpdateDocRejected(e, c) ==
  /\ c \in creating[e]
  /\ console' = [console EXCEPT ![e] = @ \cup {"Error creating schedule:"}]
  /\ creating' = [creating EXCEPT ![e] = @ \ {c}]
  /\ UNCHANGED << needsOnboarding, kids, userKids, userSchedules, userData, user,
                  error, storeVars, plannerVars, detailVars >>

\* The call c resumes after setDoc: arrayUnion(id) is committed to the user
\* document, and handleViewSchedule(id) ends the call.
createUpdateDoc(e, c) ==
  /\ c \in creating[e]
  /\ userSchedules' = userSchedules \cup {c.newScheduleId}
  /\ userData' = onUserSnapshot([kids |-> userKids, schedules |-> userSchedules'])
  /\ viewCreated(e, c.newScheduleId)
  /\ creating' = [creating EXCEPT ![e] = @ \ {c}]
  /\ UNCHANGED << needsOnboarding, kids, userKids, user, error, console, storeVars,
                  schedules >>

\* The page of a session with calls in flight is closed and opened again:
\* the calls never resume, and the dashboard is shown once the schedules
\* query has reported.
clientStops(e) ==
  /\ PlannerShown(e)
  /\ creating[e] # {}
  /\ creating' = [creating EXCEPT ![e] = {}]
  /\ console' = [console EXCEPT ![e] = {}]
  /\ unmountDetail(e)
  /\ currentScheduleId' = [currentScheduleId EXCEPT ![e] = Null]
  /\ schedules' = [schedules EXCEPT ![e] = listed]
  /\ UNCHANGED << needsOnboarding, kids, userKids, userSchedules, userData, user,
                  error, storeVars >>

\* "View & Manage" of a listed schedule.
handleViewSchedule(e, scheduleId) ==
  /\ PlannerShown(e)
  /\ view[e] = "dashboard"
  /\ \E s \in schedules[e] : s.id = scheduleId
  /\ mountDetail(e, scheduleId)
  /\ pending' = [pending EXCEPT ![e] = TRUE]
  /\ UNCHANGED << userVars, storeVars, schedules >>

\* "Back to Dashboard"
backToDashboard(e) ==
  /\ GridShown(e)
  /\ unmountDetail(e)
  /\ UNCHANGED << userVars, storeVars, currentScheduleId, schedules >>

\* "Sign Out": signOut(auth), and onAuthStateChanged(null) after it. App shows
\* the AuthScreen; the PlannerScreen is unmounted, its state and the
\* listeners of its effects gone.
handleSignOut(e) ==
  /\ PlannerShown(e)
  /\ user' = [user EXCEPT ![e] = Null]
  /\ userData' = [userData EXCEPT ![e] = NullData]
  /\ unmountDetail(e)
  /\ currentScheduleId' = [currentScheduleId EXCEPT ![e] = Null]
  /\ schedules' = [schedules EXCEPT ![e] = {}]
  /\ UNCHANGED << needsOnboarding, kids, userKids, userSchedules, error, console,
                  creating, storeVars >>

\* --------------------------------------------------------------- the schedule listener
\* (onScheduleSnapshotStays is the listener without its else branch: a
\* missing document leaves the schedule view as it is.)
onScheduleSnapshotStays(e) ==
  /\ PlannerShown(e)
  /\ view[e] = "viewSchedule"
  /\ pending[e]
  /\ LET id == currentScheduleId[e]
     IN  IF ~Exists(id)
         THEN /\ pending' = [pending EXCEPT ![e] = FALSE]
              /\ UNCHANGED << view, currentScheduleId, scheduleData, modal, currentItems,
                              currentCell, openedCamp, selectedKids, isPrintView,
                              selectedKidForSummary >>
         ELSE LET data == store[id]
                  pick == selectedKidForSummary[e] = <<>> /\ Len(data.allKids) > 0
              IN  /\ scheduleData' = [scheduleData EXCEPT ![e] = data]
                  /\ selectedKidForSummary' =
                       [selectedKidForSummary EXCEPT ![e] =
                          IF pick THEN data.allKids[1] ELSE @]
                  \* the effect runs again when selectedKidForSummary changes:
                  \* a new listener, whose first snapshot is to come
                  /\ pending' = [pending EXCEPT ![e] = pick]
                  \* ManagementModal's effect on [isOpen, items]
                  /\ currentItems' = [currentItems EXCEPT ![e] =
                       IF modal[e] \in {"kids", "camps"}
                       THEN sort(data[listName(e)]) ELSE @]
                  /\ UNCHANGED << view, currentScheduleId, modal, currentCell, openedCamp,
                                  selectedKids, isPrintView >>
  /\ UNCHANGED << userVars, storeVars, schedules >>

\* onSnapshot(scheduleDocRef, docSnap => ...): the listener hands over the
\* stored document as it is now.
onScheduleSnapshot(e) ==
  /\ PlannerShown(e)
  /\ view[e] = "viewSchedule"
  /\ pending[e]
  /\ LET id == currentScheduleId[e]
     IN  IF ~Exists(id)
         THEN /\ unmountDetail(e)
              /\ UNCHANGED currentScheduleId
         ELSE LET data == store[id]
                  pick == selectedKidForSummary[e] = <<>> /\ Len(data.allKids) > 0
              IN  /\ scheduleData' = [scheduleData EXCEPT ![e] = data]
                  /\ selectedKidForSummary' =
                       [selectedKidForSummary EXCEPT ![e] =
                          IF pick THEN data.allKids[1] ELSE @]
                  \* the effect runs again when selectedKidForSummary changes:
                  \* a new listener, whose first snapshot is to come
                  /\ pending' = [pending EXCEPT ![e] = pick]
                  \* ManagementModal's effect on [isOpen, items]
                  /\ currentItems' = [currentItems EXCEPT ![e] =
                       IF modal[e] \in {"kids", "camps"}
                       THEN sort(data[listName(e)]) ELSE @]
                  /\ UNCHANGED << view, currentScheduleId, modal, currentCell, openedCamp,
                                  selectedKids, isPrintView >>
  /\ UNCHANGED << userVars, storeVars, schedules >>

\* The document is deleted in the store by something other than this
\* program, which deletes none: the attached listeners are told.
deleteDoc(id) ==
  /\ Exists(id)
  /\ store' = [store EXCEPT ![id] = NullData]
  /\ pending' = [v \in Viewers |-> subscribed(v, id) \/ pending[v]]
  /\ UNCHANGED << userVars, commits, plannerVars, scheduleData, modal, currentItems,
                  currentCell, openedCamp, selectedKids, isPrintView,
                  selectedKidForSummary >>

\* --------------------------------------------------------------- EditScheduleModal
\* handleOpenModal(campIndex, weekIndex): a click on a grid cell.
handleOpenModal(e, campIndex, weekIndex) ==
  /\ GridShown(e)
  /\ campIndex \in 0..(Len(scheduleData[e].camps) - 1)
  /\ weekIndex \in 0..(scheduleData[e].weekCount - 1)
  /\ currentCell' = [currentCell EXCEPT ![e] =
                       [campIndex |-> campIndex, weekIndex |-> weekIndex]]
  /\ openedCamp' = [openedCamp EXCEPT ![e] = scheduleData[e].camps[campIndex + 1]]
  /\ modal' = [modal EXCEPT ![e] = "cell"]
  /\ selectedKids' = [selectedKids EXCEPT ![e] =
                        Get(scheduleData[e].schedule, Key(campIndex, weekIndex))]
  /\ UNCHANGED << userVars, storeVars, plannerVars, scheduleData, pending,
                  currentItems, isPrintView, selectedKidForSummary >>

\* A checkbox of the modal: the name leaves the Set or is added at its end.
handleCheckboxChange(e, kid) ==
  /\ modal[e] = "cell"
  /\ includes(scheduleData[e].allKids, kid)
  /\ selectedKids' = [selectedKids EXCEPT ![e] =
       IF includes(@, kid) THEN without(@, kid) ELSE Append(@, kid)]
  /\ UNCHANGED << userVars, storeVars, plannerVars, scheduleData, pending, modal,
                  currentItems, currentCell,
                  openedCamp, isPrintView, selectedKidForSummary >>

\* setScheduleModalOpen(false): the modal is gone, and with it its Set of
\* names; the cell, which only the open modal and its save read and which
\* the next click overwrites, is recorded as NoCell from here on.
closeScheduleModal(e) ==
  /\ modal' = [modal EXCEPT ![e] = "none"]
  /\ selectedKids' = [selectedKids EXCEPT ![e] = <<>>]
  /\ currentCell' = [currentCell EXCEPT ![e] = NoCell]
  /\ openedCamp' = [openedCamp EXCEPT ![e] = <<>>]

\* A cell save that replaces the one key in the stored schedule instead of in
\* the viewer's copy of it.
handleScheduleChangeInStore(e, updatedAttendees) ==
  /\ currentCell[e].campIndex # NoCell.campIndex
  /\ currentCell[e].weekIndex # NoCell.weekIndex
  /\ LET key == Key(currentCell[e].campIndex, currentCell[e].weekIndex)
         new == spread(store[currentScheduleId[e]].schedule, key, updatedAttendees)
     IN  /\ updateDoc(e, currentScheduleId[e], "schedule", new)
         /\ scheduleData' = [scheduleData EXCEPT ![e] = [@ EXCEPT !.schedule = new]]
  /\ closeScheduleModal(e)

\* handleScheduleChange(updatedAttendees): the viewer's copy of the schedule
\* map with the one key replaced is written over the schedule field, and the
\* modal is closed.
handleScheduleChange(e, updatedAttendees) ==
  /\ currentCell[e].campIndex # NoCell.campIndex
  /\ currentCell[e].weekIndex # NoCell.weekIndex
  /\ LET key == Key(currentCell[e].campIndex, currentCell[e].weekIndex)
         new == spread(scheduleData[e].schedule, key, updatedAttendees)
     IN  /\ updateDoc(e, currentScheduleId[e], "schedule", new)
         /\ scheduleData' = [scheduleData EXCEPT ![e] = [@ EXCEPT !.schedule = new]]
  /\ closeScheduleModal(e)

\* EditScheduleModal.handleSave
handleSaveCell(e) ==
  /\ modal[e] = "cell"
  /\ handleScheduleChange(e, selectedKids[e])
  /\ UNCHANGED << userVars, plannerVars, currentItems, isPrintView,
                  selectedKidForSummary >>

\* EditScheduleModal.handleSave when updateDoc is rejected: the catch of
\* handleScheduleChange logs, and the modal stays open.
handleSaveCellRejected(e) ==
  /\ modal[e] = "cell"
  /\ currentCell[e].campIndex # NoCell.campIndex
  /\ currentCell[e].weekIndex # NoCell.weekIndex
  /\ console' = [console EXCEPT ![e] = @ \cup {"Error updating schedule:"}]
  /\ UNCHANGED << needsOnboarding, kids, userKids, userSchedules, userData, user,
                  error, creating, storeVars, plannerVars, detailVars >>

handleCloseModal(e) ==
  /\ modal[e] = "cell"
  /\ closeScheduleModal(e)
  /\ UNCHANGED << userVars, storeVars, plannerVars, scheduleData, pending,
                  currentItems, isPrintView, selectedKidForSummary >>

\* --------------------------------------------------------------- PrintableSummary
\* The select of the summary box; the listener effect depends on the value,
\* so a new listener is attached.
setSelectedKidForSummary(e, kid) ==
  /\ GridShown(e)
  /\ kid = <<>> \/ includes(scheduleData[e].allKids, kid)
  /\ kid # selectedKidForSummary[e]
  /\ selectedKidForSummary' = [selectedKidForSummary EXCEPT ![e] = kid]
  /\ pending' = [pending EXCEPT ![e] = TRUE]
  /\ UNCHANGED << userVars, storeVars, plannerVars, scheduleData, modal, currentItems,
                  currentCell, openedCamp, selectedKids, isPrintView >>

\* "View Summary" (on) and "Back to Grid" (off).
setIsPrintView(e, on) ==
  /\ IF on THEN GridShown(e)
           ELSE view[e] = "viewSchedule" /\ scheduleData[e] # NullData /\ isPrintView[e]
  /\ isPrintView' = [isPrintView EXCEPT ![e] = on]
  /\ UNCHANGED << userVars, storeVars, plannerVars, scheduleData, pending, modal,
                  currentItems, currentCell,
                  openedCamp, selectedKids, selectedKidForSummary >>

NoCamp == "No camp this week!"

\* The loop without its break: the last camp whose cell includes the kid.
RECURSIVE weekSummaryLast(_, _, _, _)
weekSummaryLast(planData, selectedKid, weekIndex, campIndex) ==
  IF campIndex >= Len(planData.camps)
  THEN [kidCamp |-> NoCamp, friends |-> <<>>]
  ELSE LET attendees == Get(planData.schedule, Key(campIndex, weekIndex))
           rest == weekSummaryLast(planData, selectedKid, weekIndex, campIndex + 1)
       IN  IF rest.kidCamp = NoCamp /\ includes(attendees, selectedKid)
           THEN [kidCamp |-> planData.camps[campIndex + 1],
                 friends |-> without(attendees, selectedKid)]
           ELSE rest

\* The loop of PrintableSummary for one week, from campIndex on: it stops at
\* the first camp whose cell includes the kid.
RECURSIVE weekSummaryFrom(_, _, _, _)
weekSummaryFrom(planData, selectedKid, weekIndex, campIndex) ==
  IF campIndex >= Len(planData.camps)
  THEN [kidCamp |-> NoCamp, friends |-> <<>>]
  ELSE LET attendees == Get(planData.schedule, Key(campIndex, weekIndex))
       IN  IF includes(attendees, selectedKid)
           THEN [kidCamp |-> planData.camps[campIndex + 1],
                 friends |-> without(attendees, selectedKid)]
           ELSE weekSummaryFrom(planData, selectedKid, weekIndex, campIndex + 1)

PrintableSummary(planData, selectedKid) ==
  [weekIndex \in 0..(planData.weekCount - 1) |->
     weekSummaryFrom(planData, selectedKid, weekIndex, 0)]

\* --------------------------------------------------------------- ScheduleGrid
kidColors ==
  << "bg-blue-200 text-blue-800", "bg-green-200 text-green-800",
     "bg-yellow-200 text-yellow-800", "bg-purple-200 text-purple-800",
     "bg-pink-200 text-pink-800", "bg-indigo-200 text-indigo-800",
     "bg-red-200 text-red-800", "bg-teal-200 text-teal-800" >>

\* (getKidColorNoWrap is getKidColor without the remainder.)
getKidColorNoWrap(planData, kidName) ==
  LET sortedKids == sort(planData.allKids)
      index == indexOf(sortedKids, kidName)
  IN  element(kidColors, index)

\* getKidColor(kidName): the class of the kid's chip in the grid.
getKidColor(planData, kidName) ==
  LET sortedKids == sort(planData.allKids)
      index == indexOf(sortedKids, kidName)
  IN  element(kidColors, remainder(index, Len(kidColors)))

\* --------------------------------------------------------------- specifications
Closed ==
  /\ view = [e \in Viewers |-> "dashboard"]
  /\ currentScheduleId = [e \in Viewers |-> Null]
  /\ schedules = [e \in Viewers |-> listed]
  /\ scheduleData = [e \in Viewers |-> NullData]
  /\ pending = [e \in Viewers |-> FALSE]
  /\ modal = [e \in Viewers |-> "none"]
  /\ currentItems = [e \in Viewers |-> <<>>]
  /\ currentCell = [e \in Viewers |-> NoCell]
  /\ openedCamp = [e \in Viewers |-> <<>>]
  /\ selectedKids = [e \in Viewers |-> <<>>]
  /\ isPrintView = [e \in Viewers |-> FALSE]
  /\ selectedKidForSummary = [e \in Viewers |-> <<>>]

\* Viewer v1 has the schedule data open in the grid; v2 is on the dashboard.
Open(data) ==
  /\ needsOnboarding = FALSE
  /\ kids = <<>>
  /\ userKids = OwnerKids
  /\ userSchedules = ScheduleIds
  /\ store = [id \in ScheduleIds |-> data]
  /\ commits = [id \in ScheduleIds |-> 1]
  /\ SignedIn
  /\ view = [e \in Viewers |-> IF e = "v1" THEN "viewSchedule" ELSE "dashboard"]
  /\ currentScheduleId = [e \in Viewers |-> IF e = "v1" THEN "S1" ELSE Null]
  /\ schedules = [e \in Viewers |-> listed]
  /\ scheduleData = [e \in Viewers |-> IF e = "v1" THEN data ELSE NullData]
  /\ pending = [e \in Viewers |-> FALSE]
  /\ currentCell = [e \in Viewers |-> NoCell]
  /\ openedCamp = [e \in Viewers |-> <<>>]
  /\ selectedKids = [e \in Viewers |-> <<>>]
  /\ isPrintView = [e \in Viewers |-> FALSE]
  /\ selectedKidForSummary =
       [e \in Viewers |-> IF e = "v1" /\ Len(data.allKids) > 0
                          THEN data.allKids[1] ELSE <<>>]

\* Schedules that earlier sessions of the user left in the store.
SeedDocs ==
  { [newSchedule(OwnerKids[1]) EXCEPT
       !.camps = << <<"a">>, <<"b">> >>,
       !.schedule = [k \in {Key(1, 0)} |-> << OwnerKids[1] >>]] }

\* The signed-in user has a roster; the store holds no schedule yet, or one
\* that earlier sessions left. Every viewer is a session of that user, on
\* the dashboard, which lists the stored schedules.
Init ==
  /\ needsOnboarding = FALSE
  /\ kids = <<>>
  /\ userKids = OwnerKids
  /\ \/ /\ userSchedules = {}
        /\ store = [id \in ScheduleIds |-> NullData]
     \/ \E data \in SeedDocs :
          /\ userSchedules = ScheduleIds
          /\ store = [id \in ScheduleIds |-> data]
  /\ commits = [id \in ScheduleIds |-> 0]
  /\ SignedIn
  /\ Closed

\* The names a schedule's kid list and its camp list can hold.
KidNames == Range(OwnerKids) \cup { trim(r) : r \in KidInputs }

CampNames ==
  UNION { Range(d.camps) : d \in SeedDocs } \cup { trim(r) : r \in CampInputs }

\* A save by viewer e can still be committed within MaxCommits.
CanCommit(e) ==
  /\ currentScheduleId[e] # Null
  /\ commits[currentScheduleId[e]] < MaxCommits

Next ==
  \/ \E e \in Viewers : onSchedulesSnapshot(e)
  \/ \E e \in Viewers, kid \in Range(userKids), id \in ScheduleIds :
       handleCreateSchedule(e, kid, id)
  \/ \E e \in Viewers, id \in ScheduleIds : handleViewSchedule(e, id)
  \/ \E e \in Viewers : onScheduleSnapshot(e)
  \/ \E e \in Viewers, which \in {"kids", "camps"} :
       CanCommit(e) /\ openManagementModal(e, which)
  \/ \E e \in Viewers :
       \E newItem \in (IF modal[e] = "kids" THEN KidInputs ELSE CampInputs) :
         handleAddItem(e, newItem)
  \/ \E e \in Viewers : \E item \in Range(currentItems[e]) : handleRemoveItem(e, item)
  \/ \E e \in Viewers : handleSave(e)
  \/ \E e \in Viewers : onClose(e)
  \/ \E e \in Viewers, campIndex \in 0..(Cardinality(CampNames) - 1),
          weekIndex \in ClickWeeks :
       CanCommit(e) /\ handleOpenModal(e, campIndex, weekIndex)
  \/ \E e \in Viewers, kid \in KidNames : handleCheckboxChange(e, kid)
  \/ \E e \in Viewers : handleSaveCell(e)
  \/ \E e \in Viewers : handleCloseModal(e)

Spec == Init /\ [][Next]_vars

\* The summary of a stored schedule: a viewer opens a schedule, picks a kid,
\* reads the summary, and goes back. The stored schedules hold every
\* combination of attendee lists in week 0 of the two camps, and in a row
\* that a removed camp left behind.
SummaryCells ==
  { <<>>, << <<"a">> >>, << <<"b">> >>, << <<"a">>, <<"b">> >> }

SummaryDocs ==
  { [newSchedule(OwnerKids[1]) EXCEPT
       !.camps = << <<"a">>, <<"b">> >>,
       !.allKids = << <<"a">>, <<"b">> >>,
       !.schedule = schedule] :
      schedule \in [{Key(0, 0), Key(1, 0), Key(2, 0)} -> SummaryCells] }

SummaryInit ==
  \E data \in SummaryDocs :
    /\ Open(data)
    /\ modal = [e \in Viewers |-> "none"]
    /\ currentItems = [e \in Viewers |-> <<>>]

SummaryNext ==
  \/ \E e \in Viewers, id \in ScheduleIds : handleViewSchedule(e, id)
  \/ \E e \in Viewers : backToDashboard(e)
  \/ \E e \in Viewers : onScheduleSnapshot(e)
  \/ \E e \in Viewers, kid \in KidNames \cup {<<>>} : setSelectedKidForSummary(e, kid)
  \/ \E e \in Viewers, on \in BOOLEAN : setIsPrintView(e, on)

SpecSummary == SummaryInit /\ [][SummaryNext]_vars

\* The roster editors alone: the onboarding list from the empty list, and a
\* ManagementModal opened on any sorted duplicate-free stored list.
RosterNames == { trim(r) : r \in RawInputs } \ { <<>> }

RECURSIVE SetToSeq(_)
SetToSeq(S) ==
  IF S = {} THEN <<>> ELSE LET x == CHOOSE y \in S : TRUE IN <<x>> \o SetToSeq(S \ {x})

SortedLists(names) == { sort(SetToSeq(S)) : S \in SUBSET names }

RosterInit ==
  \/ /\ needsOnboarding = TRUE
     /\ kids = <<>>
     /\ userKids = <<>>
     /\ userSchedules = {}
     /\ store = [id \in ScheduleIds |-> NullData]
     /\ commits = [id \in ScheduleIds |-> 0]
     /\ SignedIn
     /\ Closed
  \/ \E items \in SortedLists(RosterNames), which \in {"kids", "camps"} :
       /\ Open([newSchedule(OwnerKids[1])
                  EXCEPT ![IF which = "kids" THEN "allKids" ELSE "camps"] = items])
       /\ modal = [e \in Viewers |-> IF e = "v1" THEN which ELSE "none"]
       /\ currentItems = [e \in Viewers |-> IF e = "v1" THEN sort(items) ELSE <<>>]

RosterNext ==
  \/ \E kidName \in RawInputs : handleAddKid(kidName)
  \/ \E name \in RosterNames : handleRemoveKid(name)
  \/ handleFinishSetup
  \/ \E e \in Viewers, newItem \in RawInputs : handleAddItem(e, newItem)
  \/ \E e \in Viewers, name \in RosterNames : handleRemoveItem(e, name)

SpecRoster == RosterInit /\ [][RosterNext]_vars

\* The colours of the grid: a schedule of seven to nine kids is open in the
\* grid of v1, and the viewers edit and save its kid list.
ColorNames ==
  { <<"a">>, <<"A">>, <<"b">>, <<"a", "a">>, <<"a", "A">>, <<"A", "a">>,
    <<"a", "b">>, <<"b", "a">>, <<"b", "b">> }

ColorInputs == { <<"a">>, <<"b", "b", " ">> }

ColorDocs ==
  { [newSchedule(OwnerKids[1]) EXCEPT !.allKids = sort(SetToSeq(S))] :
      S \in { T \in SUBSET ColorNames : Cardinality(T) >= Cardinality(ColorNames) - 2 } }

ColorInit ==
  \E data \in ColorDocs :
    /\ Open(data)
    /\ modal = [e \in Viewers |-> "none"]
    /\ currentItems = [e \in Viewers |-> <<>>]

ColorNext ==
  \/ \E e \in Viewers, id \in ScheduleIds : handleViewSchedule(e, id)
  \/ \E e \in Viewers : onScheduleSnapshot(e)
  \/ \E e \in Viewers : CanCommit(e) /\ openManagementModal(e, "kids")
  \/ \E e \in Viewers, newItem \in ColorInputs : handleAddItem(e, newItem)
  \/ \E e \in Viewers, item \in { trim(r) : r \in ColorInputs } :
       handleRemoveItem(e, item)
  \/ \E e \in Viewers : handleSave(e)
  \/ \E e \in Viewers : onClose(e)

SpecColor == ColorInit /\ [][ColorNext]_vars

\* Schedule creation write by write. The user has two kids; the store holds
\* no schedule and both viewers are on the dashboard, or it holds the
\* schedule of the first kid, which v1 has open, under the first of the two
\* identifiers the random token can take. A viewer clicks a create button
\* when no call of its own is in flight.
CreateIds == {"S1", "S2"}

CreateKids == << <<"a">>, <<"b">> >>

CreateInit ==
  /\ needsOnboarding = FALSE
  /\ kids = <<>>
  /\ userKids = CreateKids
  /\ commits = [id \in CreateIds |-> 0]
  /\ \/ /\ userSchedules = {}
        /\ store = [id \in CreateIds |-> NullData]
        /\ Closed
     \/ \E data \in SeedDocs :
          /\ userSchedules = ScheduleIds
          /\ store = [id \in CreateIds |-> IF id \in ScheduleIds THEN data ELSE NullData]
          /\ view = [e \in Viewers |-> IF e = "v1" THEN "viewSchedule" ELSE "dashboard"]
          /\ currentScheduleId = [e \in Viewers |-> IF e = "v1" THEN "S1" ELSE Null]
          /\ schedules = [e \in Viewers |-> listed]
          /\ scheduleData = [e \in Viewers |-> IF e = "v1" THEN data ELSE NullData]
          /\ pending = [e \in Viewers |-> FALSE]
          /\ modal = [e \in Viewers |-> "none"]
          /\ currentItems = [e \in Viewers |-> <<>>]
          /\ currentCell = [e \in Viewers |-> NoCell]
          /\ openedCamp = [e \in Viewers |-> <<>>]
          /\ selectedKids = [e \in Viewers |-> <<>>]
          /\ isPrintView = [e \in Viewers |-> FALSE]
          /\ selectedKidForSummary =
               [e \in Viewers |-> IF e = "v1" THEN data.allKids[1] ELSE <<>>]
  /\ SignedIn

CreateNext ==
  \/ \E e \in Viewers, kid \in Range(userKids), id \in CreateIds :
       creating[e] = {} /\ createSetDoc(e, kid, id)
  \/ \E e \in Viewers, kid \in Range(userKids), id \in CreateIds :
       creating[e] = {} /\ createSetDocRejected(e, kid, id)
  \/ \E e \in Viewers : \E c \in creating[e] : createUpdateDoc(e, c)
  \/ \E e \in Viewers : \E c \in creating[e] : createUpdateDocRejected(e, c)
  \/ \E e \in Viewers : clientStops(e)
  \/ \E e \in Viewers : onSchedulesSnapshot(e)
  \/ \E e \in Viewers : onScheduleSnapshot(e)

SpecCreate == CreateInit /\ [][CreateNext]_vars

\* Sessions that view, leave and sign out while schedules are created and
\* their camp lists saved.
SessionNext ==
  \/ \E e \in Viewers : handleSignOut(e)
  \/ \E e \in Viewers : onSchedulesSnapshot(e)
  \/ \E e \in Viewers, kid \in Range(userKids), id \in ScheduleIds :
       handleCreateSchedule(e, kid, id)
  \/ \E e \in Viewers, id \in ScheduleIds : handleViewSchedule(e, id)
  \/ \E e \in Viewers : backToDashboard(e)
  \/ \E e \in Viewers : onScheduleSnapshot(e)
  \/ \E e \in Viewers : CanCommit(e) /\ openManagementModal(e, "camps")
  \/ \E e \in Viewers, newItem \in CampInputs : handleAddItem(e, newItem)
  \/ \E e \in Viewers : handleSave(e)

SpecSession == Init /\ [][SessionNext]_vars

\* A schedule that vanishes: the viewers open the stored schedule and its
\* camps modal, and the document is deleted under them.
VanishNext ==
  \/ \E id \in ScheduleIds : deleteDoc(id)
  \/ \E e \in Viewers : onSchedulesSnapshot(e)
  \/ \E e \in Viewers, id \in ScheduleIds : handleViewSchedule(e, id)
  \/ \E e \in Viewers : onScheduleSnapshot(e)
  \/ \E e \in Viewers : openManagementModal(e, "camps")
  \/ \E e \in Viewers, newItem \in CampInputs : handleAddItem(e, newItem)
  \/ \E e \in Viewers : onClose(e)
  \/ \E e \in Viewers, on \in BOOLEAN : setIsPrintView(e, on)

SpecVanish == Init /\ [][VanishNext]_vars

\* Writes that the store rejects: one viewer creates, edits and saves, and
\* each of its writes is committed or rejected.
RejectNext ==
  \/ \E kid \in Range(userKids), id \in ScheduleIds :
       creating["v1"] = {} /\ createSetDoc("v1", kid, id)
  \/ \E kid \in Range(userKids), id \in ScheduleIds :
       creating["v1"] = {} /\ createSetDocRejected("v1", kid, id)
  \/ \E c \in creating["v1"] : createUpdateDoc("v1", c)
  \/ \E c \in creating["v1"] : createUpdateDocRejected("v1", c)
  \/ onSchedulesSnapshot("v1")
  \/ \E id \in ScheduleIds : handleViewSchedule("v1", id)
  \/ onScheduleSnapshot("v1")
  \/ \E which \in {"kids", "camps"} : CanCommit("v1") /\ openManagementModal("v1", which)
  \/ \E newItem \in (IF modal["v1"] = "kids" THEN KidInputs ELSE CampInputs) :
       handleAddItem("v1", newItem)
  \/ handleSave("v1")
  \/ handleSaveRejected("v1")
  \/ \E campIndex \in 0..(Cardinality(CampNames) - 1), weekIndex \in ClickWeeks :
       CanCommit("v1") /\ handleOpenModal("v1", campIndex, weekIndex)
  \/ \E kid \in KidNames : handleCheckboxChange("v1", kid)
  \/ handleSaveCell("v1")
  \/ handleSaveCellRejected("v1")
  \/ handleCloseModal("v1")

SpecReject == Init /\ [][RejectNext]_vars

\* Convergence: the viewers open the stored schedule and stay or leave, v1
\* saves camp lists and v2 saves cells; an attached listener that has a
\* snapshot to deliver delivers it.
ConvergeNext ==
  \/ \E e \in Viewers, id \in ScheduleIds : handleViewSchedule(e, id)
  \/ \E e \in Viewers : backToDashboard(e)
  \/ \E e \in Viewers : onScheduleSnapshot(e)
  \/ CanCommit("v1") /\ openManagementModal("v1", "camps")
  \/ \E newItem \in CampInputs : handleAddItem("v1", newItem)
  \/ handleSave("v1")
  \/ \E campIndex \in 0..(Cardinality(CampNames) - 1), weekIndex \in ClickWeeks :
       CanCommit("v2") /\ handleOpenModal("v2", campIndex, weekIndex)
  \/ \E kid \in KidNames : handleCheckboxChange("v2", kid)
  \/ handleSaveCell("v2")

SpecConverge ==
  /\ Init
  /\ [][ConvergeNext]_vars
  /\ \A e \in Viewers : WF_vars(onScheduleSnapshot(e))

\* --------------------------------------------------------------- properties
\* The stored document a viewer's writes go to, and the cell its modal edits.
doc(e) == store[currentScheduleId[e]]

cellKey(e) == Key(currentCell[e].campIndex, currentCell[e].weekIndex)

\* The list without its entry at zero-based position i.
removeAt(list, i) == SubSeq(list, 1, i) \o SubSeq(list, i + 2, Len(list))

\* C1: a cell save set(c,w,kids) followed by get(c,w) returns exactly kids, in
\* the submitted order, and every other cell that was set in the stored
\* schedule before the save holds the same attendee list after it.
C1_CellSaveRoundTripAndFrame ==
  [][\A e \in Viewers :
       handleSaveCell(e) =>
         /\ Get(doc(e).schedule', cellKey(e)) = selectedKids[e]
         /\ \A k \in (DOMAIN doc(e).schedule) \ {cellKey(e)} :
              Get(doc(e).schedule', k) = doc(e).schedule[k]]_vars

\* C2: removing the camp at index i leaves get(c,w) unchanged for every
\* c < i, moves the attendees of every cell (c,w) with c > i to (c-1,w), and
\* leaves no key whose camp index is >= the new number of camps.
C2_CampRemovalReindexes ==
  [][\A e \in Viewers :
       (handleSave(e) /\ modal[e] = "camps") =>
         LET old == doc(e)
             new == doc(e)'
         IN  \A i \in 0..(Len(old.camps) - 1) :
               new.camps = removeAt(old.camps, i) =>
                 /\ \A w \in 0..(old.weekCount - 1) :
                      /\ \A c \in 0..(i - 1) :
                           Get(new.schedule, Key(c, w)) = Get(old.schedule, Key(c, w))
                      /\ \A c \in (i + 1)..(Len(old.camps) - 1) :
                           Get(new.schedule, Key(c - 1, w)) = Get(old.schedule, Key(c, w))
                 /\ \A k \in DOMAIN new.schedule : k[1] < Len(new.camps)]_vars

\* C3: after a kid name is removed from allKids, no cell of the stored
\* schedule contains that name.
C3_KidRemovalPrunes ==
  [][\A e \in Viewers :
       (handleSave(e) /\ modal[e] = "kids") =>
         \A name \in Range(doc(e).allKids) \ Range(doc(e).allKids') :
           \A k \in DOMAIN doc(e).schedule' : ~includes(doc(e).schedule'[k], name)]_vars

\* C4: when a camp is added whose name sorts before an existing camp, every
\* camp name that existed before the save reads, at every week, the attendee
\* list after the save that it read before the save.
C4_CampAddReconciles ==
  [][\A e \in Viewers :
       (handleSave(e) /\ modal[e] = "camps") =>
         LET old == doc(e)
             new == doc(e)'
         IN  (/\ Range(old.camps) \subseteq Range(new.camps)
              /\ \E x \in Range(new.camps) \ Range(old.camps) :
                   \E y \in Range(old.camps) : localeCompare(x, y) < 0)
             => \A name \in Range(old.camps), w \in 0..(old.weekCount - 1) :
                  Get(new.schedule, Key(indexOf(new.camps, name), w))
                    = Get(old.schedule, Key(indexOf(old.camps, name), w))]_vars

\* C5: a cell save writes the editor's last received snapshot of the schedule
\* with the one cell replaced: after the commit every other cell of the
\* stored schedule is the one of the editor's snapshot, so a change another
\* editor committed to another cell, which the snapshot does not hold, is no
\* longer stored.
C5_CellSaveWritesSnapshot ==
  [][\A e \in Viewers :
       handleSaveCell(e) =>
         \A k \in ((DOMAIN doc(e).schedule) \cup (DOMAIN doc(e).schedule')) \ {cellKey(e)} :
           /\ k \in DOMAIN doc(e).schedule' <=> k \in DOMAIN scheduleData[e].schedule
           /\ Get(doc(e).schedule', k) = Get(scheduleData[e].schedule, k)]_vars

\* A lost update has happened: both viewers have the schedule open, two
\* writes were committed, the one viewer still shows the cell it saved and
\* has the other's commit to receive, and the stored schedule, which is what
\* the other viewer shows, has no entry for that cell.
C5_LostUpdateReached ==
  \E a \in Viewers : \E b \in Viewers \ {a} :
    /\ scheduleData[a] # NullData /\ scheduleData[b] # NullData
    /\ commits[currentScheduleId[a]] = 2
    /\ pending[a]
    /\ scheduleData[b].schedule = doc(b).schedule
    /\ \E x \in DOMAIN scheduleData[a].schedule :
         /\ scheduleData[a].schedule[x] # <<>>
         /\ x \notin DOMAIN doc(a).schedule

\* A list in the order of localeCompare, and one that names nothing twice.
sorted(list) ==
  \A i \in 1..Len(list), j \in 1..Len(list) :
    i < j => localeCompare(list[i], list[j]) < 0

noDuplicates(list) ==
  \A i \in 1..Len(list), j \in 1..Len(list) : i # j => list[i] # list[j]

\* C6: in every reachable state of a stored schedule document, whatever the
\* interleaving of schedule creation and list saves, camps and allKids each
\* name nothing twice and are in (localeCompare's) lexicographic order.
C6_StoredListsSortedNoDuplicates ==
  \A id \in ScheduleIds :
    Exists(id) =>
      /\ sorted(store[id].camps) /\ noDuplicates(store[id].camps)
      /\ sorted(store[id].allKids) /\ noDuplicates(store[id].allKids)

\* Two list saves were committed: three camps and two kids are stored.
C6_ListsSavedReached ==
  \E id \in ScheduleIds :
    /\ Exists(id)
    /\ commits[id] = 2
    /\ Len(store[id].camps) = 3
    /\ Len(store[id].allKids) = 2

\* C9: a list save changes only the named field (camps or allKids) of the
\* stored document, which becomes the saved list, and a cell save changes
\* only the schedule field; every other field is stored as it was, so a camps
\* save and a cell save committed one after the other both survive.
C9_WritesChangeOneField ==
  [][\A e \in Viewers :
       /\ handleSave(e) =>
            /\ doc(e)'[listName(e)] = currentItems[e]
            /\ \A f \in (DOMAIN doc(e)) \ {listName(e)} : doc(e)'[f] = doc(e)[f]
       /\ handleSaveCell(e) =>
            \A f \in (DOMAIN doc(e)) \ {"schedule"} : doc(e)'[f] = doc(e)[f]]_vars

\* A camps save by the one viewer and a cell save by the other were committed
\* without either having received the other's commit, and the stored
\* document holds the camps of the one and the schedule of the other.
C9_BothSavesSurvive ==
  \E a \in Viewers : \E b \in Viewers \ {a} :
    /\ scheduleData[a] # NullData /\ scheduleData[b] # NullData
    /\ pending[a] /\ pending[b]
    /\ doc(a).camps = scheduleData[a].camps
    /\ doc(a).camps # scheduleData[b].camps
    /\ doc(b).schedule = scheduleData[b].schedule
    /\ doc(b).schedule # scheduleData[a].schedule

\* C7: after every sequence of add and remove operations on a roster being
\* edited (the onboarding kid list from the empty list, the Manage Kids or
\* Manage Camps list from a sorted duplicate-free list), the list names
\* nothing twice and is in (localeCompare's) lexicographic order.
C7_RostersSortedNoDuplicates ==
  /\ sorted(kids) /\ noDuplicates(kids)
  /\ \A e \in Viewers : sorted(currentItems[e]) /\ noDuplicates(currentItems[e])

\* Three names were added to the onboarding list, two of which differ in
\* case only.
C7_RosterEdited ==
  /\ needsOnboarding
  /\ Len(kids) = 3
  /\ {<<"a">>, <<"A">>} \subseteq Range(kids)

\* A name of blanks only, and the name a text holds between its leading and
\* its trailing blanks.
blank(name) == \A i \in 1..Len(name) : name[i] = " "

stripped(name) ==
  LET cut == CHOOSE p \in (1..(Len(name) + 1)) \X (0..Len(name)) :
               /\ p[1] <= p[2] + 1
               /\ \A k \in 1..Len(name) : (k < p[1] \/ k > p[2]) => name[k] = " "
               /\ p[1] <= p[2] => (name[p[1]] # " " /\ name[p[2]] # " ")
  IN  SubSeq(name, cut[1], cut[2])

\* The old entries plus one name, sorted.
plusSorted(new, items, name) ==
  /\ Range(new) = Range(items) \cup {name}
  /\ Len(new) = Len(items) + 1
  /\ sorted(new)

removeAbsent(items) ==
  \A name \in RosterNames : name \notin Range(items) => without(items, name) = items

\* C8 as stated: add(name) leaves the roster unchanged when name is blank or
\* is an entry of the roster (case-sensitive exact match); otherwise the
\* result is exactly the old entries plus name, sorted. remove(name) of an
\* absent name leaves the roster unchanged.
addExact(items, name) ==
  IF blank(name) \/ name \in Range(items)
  THEN add(items, name) = items
  ELSE plusSorted(add(items, name), items, name)

C8_AddExactName ==
  /\ \A name \in RawInputs :
       /\ addExact(kids, name)
       /\ \A e \in Viewers : addExact(currentItems[e], name)
  /\ removeAbsent(kids)
  /\ \A e \in Viewers : removeAbsent(currentItems[e])

\* C8 as amended: add(name) leaves the roster unchanged when name without its
\* leading and trailing blanks is empty or is an entry of the roster
\* (case-sensitive exact match); otherwise the result is exactly the old
\* entries plus that stripped name, sorted. remove(name) of an absent name
\* leaves the roster unchanged.
addStripped(items, name) ==
  IF stripped(name) = <<>> \/ stripped(name) \in Range(items)
  THEN add(items, name) = items
  ELSE plusSorted(add(items, name), items, stripped(name))

C8_AddStrippedName ==
  /\ \A name \in RawInputs :
       /\ addStripped(kids, name)
       /\ \A e \in Viewers : addStripped(currentItems[e], name)
  /\ removeAbsent(kids)
  /\ \A e \in Viewers : removeAbsent(currentItems[e])

\* The onboarding list holds "a" and another name, and " a" is a text that
\* is no entry of it but whose stripped name is.
C8_StrippedNamePresent ==
  /\ needsOnboarding
  /\ Len(kids) >= 2
  /\ \E name \in RawInputs :
       /\ name \notin Range(kids)
       /\ stripped(name) # name
       /\ stripped(name) \in Range(kids)
       /\ add(kids, name) = kids

\* C10: for the selected kid and every week w in [0, weekCount), the summary
\* reports the camp of the lowest camp index whose cell (camp,w) holds the
\* kid, with that cell's list minus the kid as co-attendees, and the sentinel
\* "No camp this week!" with no co-attendees if no camp's cell at w holds the
\* kid.
C10_SummaryFirstMatch ==
  \A e \in Viewers :
    (view[e] = "viewSchedule" /\ scheduleData[e] # NullData /\ isPrintView[e]) =>
      LET data == scheduleData[e]
          kid == selectedKidForSummary[e]
          summary == PrintableSummary(data, kid)
      IN  \A w \in 0..(data.weekCount - 1) :
            LET at(c) == Get(data.schedule, Key(c, w))
                holding == { c \in 0..(Len(data.camps) - 1) : kid \in Range(at(c)) }
            IN  IF holding = {}
                THEN summary[w] = [kidCamp |-> NoCamp, friends |-> <<>>]
                ELSE \E c \in holding :
                       /\ \A other \in holding : c <= other
                       /\ summary[w].kidCamp = data.camps[c + 1]
                       /\ summary[w].friends = SelectSeq(at(c), LAMBDA n : n # kid)

\* A viewer reads the summary of a kid who is in both camps in week 0, with
\* another kid in the first of them.
C10_DoubleBookedSummaryShown ==
  \E e \in Viewers :
    /\ view[e] = "viewSchedule" /\ scheduleData[e] # NullData /\ isPrintView[e]
    /\ LET data == scheduleData[e]
           kid == selectedKidForSummary[e]
       IN  /\ kid \in Range(Get(data.schedule, Key(0, 0)))
           /\ kid \in Range(Get(data.schedule, Key(1, 0)))
           /\ Len(Get(data.schedule, Key(0, 0))) = 2
           /\ PrintableSummary(data, kid)[0].kidCamp = data.camps[1]
           /\ PrintableSummary(data, kid)[1].kidCamp = NoCamp

\* The zero-based rank of a name among the names of a list, in the order of
\* localeCompare.
rank(list, x) == Cardinality({ o \in Range(list) : localeCompare(o, x) < 0 })

\* C11: the colour of a kid is palette[r mod 8], r being the kid's zero-based
\* rank in the sorted allKids and the palette the fixed sequence of 8
\* entries; and a save of allKids with one new kid moves every kid that the
\* new kid ranks below from palette index r mod 8 to (r + 1) mod 8.
C11_ColorIsRankMod8 ==
  /\ [](/\ Len(kidColors) = 8
        /\ \A e \in Viewers :
             scheduleData[e] # NullData =>
               \A k \in Range(scheduleData[e].allKids) :
                 getKidColor(scheduleData[e], k)
                   = kidColors[(rank(scheduleData[e].allKids, k) % 8) + 1])
  /\ [][\A e \in Viewers :
         (handleSave(e) /\ modal[e] = "kids") =>
           LET old == doc(e)
               new == doc(e)'
           IN  \A x \in Range(new.allKids) \ Range(old.allKids) :
                 Range(new.allKids) = Range(old.allKids) \cup {x} =>
                   \A k \in Range(old.allKids) :
                     rank(new.allKids, x) < rank(new.allKids, k) =>
                       indexOf(kidColors, getKidColor(new, k))
                         = (indexOf(kidColors, getKidColor(old, k)) + 1) % 8]_vars

\* A ninth kid was saved that ranks first: the kid that ranks last, which
\* had the last palette entry, has the first one.
C11_NinthKidWraps ==
  \E e \in Viewers :
    /\ scheduleData[e] # NullData
    /\ commits[currentScheduleId[e]] = 2
    /\ Len(scheduleData[e].allKids) = 9
    /\ scheduleData[e].allKids[1] = <<"a">>
    /\ getKidColor(scheduleData[e], scheduleData[e].allKids[9]) = kidColors[1]

\* C12: schedule creation is two writes in a fixed order, the schedule
\* document first and the identifier in the owner's schedules second; when
\* the second write fails or the client stops between the two, the schedule
\* document stays stored with its identifier in no schedules list, and the
\* viewer is not taken to the new schedule.
C12_CreateIsTwoWrites ==
  [][/\ \A id \in CreateIds :
          /\ (id \in userSchedules' /\ id \notin userSchedules) => Exists(id)
          /\ (~Exists(id) /\ Exists(id)') => userSchedules' = userSchedules
     /\ \A e \in Viewers : \A c \in creating[e] :
          (createUpdateDocRejected(e, c) \/ clientStops(e)) =>
            /\ store' = store
            /\ userSchedules' = userSchedules
            /\ subscribed(e, c.newScheduleId)' => subscribed(e, c.newScheduleId)]_vars

\* An orphan: no call is in flight, every viewer is on the dashboard, and a
\* schedule document is stored that the owner's schedules do not name.
C12_OrphanStored ==
  /\ \A e \in Viewers : creating[e] = {} /\ view[e] = "dashboard"
  /\ \E id \in CreateIds : Exists(id) /\ id \notin userSchedules
  /\ \E e \in Viewers : console[e] # {}

\* C13: schedule creation does not check whether the generated identifier is
\* taken: when it names an existing schedule document, that document's
\* fields are replaced in full by the new empty schedule, and no error is
\* raised or logged.
C13_CollisionOverwrites ==
  [][\A e \in Viewers, kid \in Range(userKids), id \in CreateIds :
       (createSetDoc(e, kid, id) /\ Exists(id)) =>
         /\ store'[id] = newSchedule(kid)
         /\ error' = error
         /\ console' = console]_vars

\* A collision has happened: v1 still shows the schedule of the first kid,
\* with its camps and its cell, and has a snapshot to receive; the stored
\* document of that identifier is the empty schedule of the second kid.
C13_ScheduleOverwritten ==
  /\ scheduleData["v1"] \in SeedDocs
  /\ subscribed("v1", "S1")
  /\ pending["v1"]
  /\ store["S1"] = newSchedule(CreateKids[2])
  /\ \A e \in Viewers : error[e] = "" /\ console[e] = {}

\* C18: for one owner and one kid name at most one schedule document of that
\* kidName is ever created: a second trigger for the kid, issued before the
\* schedules subscription has reported the first schedule, creates no second
\* document.
C18_OneSchedulePerKid ==
  \A kid \in Range(userKids) :
    Cardinality({ id \in DOMAIN store : Exists(id) /\ store[id].kidName = kid }) <= 1

\* C14: after a viewer has navigated away from a schedule or has signed out,
\* no update of a subscription opened for that view or session is applied to
\* the viewer's local state: away from the schedule view scheduleData stays
\* as it is, and signed out scheduleData, schedules and userData do.
C14_NoUpdateAfterTeardown ==
  [][\A e \in Viewers :
       /\ (view[e] = "dashboard" /\ view'[e] = "dashboard") =>
            scheduleData'[e] = scheduleData[e]
       /\ (user[e] = Null /\ user'[e] = Null) =>
            /\ scheduleData'[e] = scheduleData[e]
            /\ schedules'[e] = schedules[e]
            /\ userData'[e] = userData[e]]_vars

\* C15: whenever a viewer in the schedule view receives a snapshot that says
\* the schedule document does not exist, the viewer's view becomes the
\* dashboard, and no error state is raised.
C15_MissingScheduleBounces ==
  [][\A e \in Viewers :
       (onScheduleSnapshot(e) /\ ~Exists(currentScheduleId[e])) =>
         /\ view'[e] = "dashboard"
         /\ error' = error
         /\ console' = console]_vars

\* A viewer was sent back: it is on the dashboard, which it can only have
\* left for the schedule whose document is gone, and its list still names
\* that schedule; another viewer has the snapshot still to receive.
C15_BouncedToDashboard ==
  \E a \in Viewers : \E b \in Viewers \ {a} :
    /\ view[a] = "dashboard"
    /\ currentScheduleId[a] # Null
    /\ ~Exists(currentScheduleId[a])
    /\ \E x \in schedules[a] : x.id = currentScheduleId[a]
    /\ error[a] = ""
    /\ view[b] = "viewSchedule" /\ pending[b] /\ scheduleData[b] # NullData

\* C16: when the store write of a mutation attempt (a list save, a cell save,
\* a schedule creation) fails, the failure is reported through a user-visible
\* error state, the stored documents are left as they are, and no further
\* write of that attempt is issued.
C16_FailureReported ==
  [][\A e \in Viewers :
       (\/ handleSaveRejected(e)
        \/ handleSaveCellRejected(e)
        \/ \E kid \in Range(userKids), id \in ScheduleIds :
             createSetDocRejected(e, kid, id)
        \/ \E c \in creating[e] : createUpdateDocRejected(e, c)) =>
         /\ error'[e] # ""
         /\ store' = store
         /\ userSchedules' = userSchedules
         /\ creating'[e] \subseteq creating[e]]_vars

\* The viewer's scheduleData holds the camps, the kids and the schedule of
\* the stored document.
converged(e) ==
  /\ scheduleData[e] # NullData
  /\ scheduleData[e].camps = doc(e).camps
  /\ scheduleData[e].allKids = doc(e).allKids
  /\ scheduleData[e].schedule = doc(e).schedule

\* C17: when every committed version is delivered to the open subscriptions
\* and the writers eventually stop writing, every viewer that stays
\* subscribed to a schedule eventually holds, and keeps, scheduleData whose
\* camps, allKids and schedule are those of the stored document.
C17_Convergence ==
  \A e \in Viewers : <>[](view[e] = "viewSchedule") => <>[]converged(e)

\* Both viewers saved without having received the other's commit, a camp
\* list the one and a cell the other, and both have received since: each
\* holds the stored document.
C17_ConvergedAfterBothSaved ==
  \E a \in Viewers : \E b \in Viewers \ {a} :
    /\ subscribed(a, "S1") /\ subscribed(b, "S1")
    /\ commits["S1"] = 2
    /\ ~pending[a] /\ ~pending[b]
    /\ converged(a) /\ converged(b)
    /\ Len(doc(a).camps) = 3
    /\ Key(0, 0) \in DOMAIN doc(a).schedule

\* C19: in every reachable state every attendee name shown in a grid cell has
\* a defined palette entry from getKidColor: every name in a cell of the
\* schedule is a member of allKids, so its palette index lies in 0..7.
C19_AttendeesHaveColor ==
  \A e \in Viewers :
    scheduleData[e] # NullData =>
      \A k \in DOMAIN scheduleData[e].schedule :
        \A name \in Range(scheduleData[e].schedule[k]) :
          /\ includes(scheduleData[e].allKids, name)
          /\ indexOf(kidColors, getKidColor(scheduleData[e], name)) \in 0..7

\* C20: a cell save writes the attendees to the camp the editor selected:
\* the key written denotes, in the stored camps list at the commit, the camp
\* that was at campIndex when the dialog was opened, also when another
\* editor's camps save has changed the order of the camps in between.
C20_CellSaveKeepsCamp ==
  [][\A e \in Viewers :
       handleSaveCell(e) =>
         /\ currentCell[e].campIndex < Len(doc(e).camps')
         /\ doc(e).camps'[currentCell[e].campIndex + 1] = openedCamp[e]]_vars
====
